---- MODULE Spec2Model ----
(***************************************************************************)
(* A model of charon/macros/src/lib.rs: the index module emitted by        *)
(* generate_index_type (Id, Generator, the serde hook), the name mangler   *)
(* to_snake_case, and the derive macros VariantName, VariantIndexArity,    *)
(* EnumIsA and EnumAsGetters together with the methods they emit.          *)
(***************************************************************************)
EXTENDS Integers, Sequences, FiniteSets, TLC

(***************************************************************************)
(* Bounds.  Integer widths are scaled down: u32 has U32Bits bits and usize *)
(* has either U32Bits bits (a 32-bit target) or U32Bits + ExtraBits bits   *)
(* (a 64-bit target).                                                      *)
(***************************************************************************)
U32Bits == 2

ExtraBits == 1

\* Longest identifier handed to to_snake_case, besides the named examples
MaxIdentLen == 4

\* Most variants of an enum, and most fields of a variant
MaxVariants == 2

MaxFields == 2

\* Most generation requests made one after the other
MaxRequests == 3

\* Deepest nesting of the types handed to type_to_string
MaxTypeDepth == 2

\* Most predicates of a where-clause
MaxPredicates == 2

\* Most statements of a body
MaxBody == 2

VARIABLES
    usize_bits,   \* width of usize on the target the emitted module runs on
    generator,    \* the Generator object: [counter |-> n]
    minted,       \* the handles fresh_id has returned, in call order
    id,           \* an Id object owned by the caller, or NoId
    wire,         \* what the last serialize call handed to the serializer
    panicked,     \* "none", or the operation whose panic ended the program
    last,         \* the last operation: its name, its input and its result
    snake_in,     \* the identifier handed to to_snake_case
    snake_out,    \* what to_snake_case returned for it
    snake_done,   \* whether to_snake_case has been called
    item,         \* the declaration (DeriveInput) the macros are applied to
    output,       \* what the last macro run handed back
    call,         \* the last call of an emitted method and its result
    log,          \* the generation requests made so far and their outcomes
    result,       \* the last application of a rendering function
    locals,       \* the locals of the body remove_drop_never works on
    body,         \* the statements of that body
    body0,        \* the statements of that body before the pass
    cursor        \* how many statements of the body the pass has visited

index_vars == <<usize_bits, generator, minted, id, wire, panicked, last>>

snake_vars == <<snake_in, snake_out, snake_done>>

derive_vars == <<item, output, call>>

gen_vars == <<log, result>>

drop_vars == <<locals, body, body0, cursor>>

vars == <<index_vars, snake_vars, derive_vars, gen_vars, drop_vars>>

RECURSIVE Pow2(_)
Pow2(n) == IF n = 0 THEN 1 ELSE 2 * Pow2(n - 1)

\* usize::MAX on a target whose usize has `bits` bits
USIZE_MAX(bits) == Pow2(bits) - 1

\* std::u32::MAX
U32_MAX == Pow2(U32Bits) - 1

\* `x as u32`: the low bits of x
as_u32(x) == x % Pow2(U32Bits)

None == [some |-> FALSE]

Some(v) == [some |-> TRUE, val |-> v]

NoId == [index |-> -1]

NoCall == [op |-> "none", before |-> -1, panic |-> FALSE, ret |-> -1]

NoWire == [call |-> "none", arg |-> -1]

\* usize arithmetic that wraps instead of reporting the overflow
wrapping_add(x, y, bits) == Some((x + y) % Pow2(bits))

\* usize::checked_add
checked_add(x, y, bits) ==
    IF x + y > USIZE_MAX(bits) THEN None ELSE Some(x + y)

\* Id::new
Id_new(init) == [index |-> init]

ZERO == [index |-> 0]

ONE == [index |-> 1]

\* Id::incr that refuses to go above u32::MAX
Id_incr_within_u32(self, bits) ==
    IF self.index + 1 > U32_MAX
    THEN [panic |-> TRUE, self |-> self]
    ELSE [panic |-> FALSE, self |-> [index |-> self.index + 1]]

\* Id::incr: the new value of self, or a panic (unwrap of None)
Id_incr(self, bits) ==
    LET r == checked_add(self.index, 1, bits)
    IN  IF r.some
        THEN [panic |-> FALSE, self |-> [index |-> r.val]]
        ELSE [panic |-> TRUE, self |-> self]

\* serialize without the range assertion
serialize_unchecked(self) ==
    [panic |-> FALSE, call |-> "serialize_u32", arg |-> as_u32(self.index)]

\* <Id as serde::Serialize>::serialize: the call made on the serializer, or
\* a panic (the assertion)
serialize(self) ==
    IF ~(self.index <= U32_MAX)
    THEN [panic |-> TRUE]
    ELSE [panic |-> FALSE, call |-> "serialize_u32", arg |-> as_u32(self.index)]

\* Generator::new
Generator_new == [counter |-> 0]

\* fresh_id advancing the counter before it reads it
fresh_id_incr_first(self, bits) ==
    LET r == checked_add(self.counter, 1, bits)
    IN  IF r.some
        THEN [panic |-> FALSE, self |-> [counter |-> r.val], ret |-> Id_new(r.val)]
        ELSE [panic |-> TRUE, self |-> self]

\* fresh_id that resets the counter when it overflows
fresh_id_reset_on_overflow(self, bits) ==
    IF checked_add(self.counter, 1, bits).some
    THEN [panic |-> FALSE, self |-> [counter |-> self.counter + 1],
          ret |-> Id_new(self.counter)]
    ELSE [panic |-> TRUE, self |-> [counter |-> 0]]

\* Generator::fresh_id: the new value of self and the handle returned, or a
\* panic (unwrap of None) that leaves self as it was
fresh_id(self, bits) ==
    LET index == Id_new(self.counter)
        r == checked_add(self.counter, 1, bits)
    IN  IF r.some
        THEN [panic |-> FALSE, self |-> [counter |-> r.val], ret |-> index]
        ELSE [panic |-> TRUE, self |-> self]

(***************************************************************************)
(* to_snake_case.  An identifier is a sequence of one-character strings.   *)
(***************************************************************************)
Uppercase == {"A", "B", "C", "I", "N", "R", "T", "V"}

\* char::is_uppercase
is_uppercase(c) == c \in Uppercase

\* c.to_lowercase().next().unwrap()
to_lowercase(c) ==
    CASE c = "A" -> "a" [] c = "B" -> "b" [] c = "C" -> "c" [] c = "I" -> "i"
      [] c = "N" -> "n" [] c = "R" -> "r" [] c = "T" -> "t" [] c = "V" -> "v"
      [] OTHER -> c

\* The loop body with the flag set, not cleared, after an uppercase character
snake_step_flag_always_set(st, c) ==
    IF is_uppercase(c)
    THEN [snake_case |->
              (IF st.last_is_lowercase
               THEN Append(st.snake_case, "_") ELSE st.snake_case)
              \o <<to_lowercase(c)>>,
          last_is_lowercase |-> TRUE]
    ELSE [snake_case |-> Append(st.snake_case, c), last_is_lowercase |-> TRUE]

\* One iteration of the loop of to_snake_case on character c
snake_step(st, c) ==
    IF is_uppercase(c)
    THEN [snake_case |->
              (IF st.last_is_lowercase
               THEN Append(st.snake_case, "_") ELSE st.snake_case)
              \o <<to_lowercase(c)>>,
          last_is_lowercase |-> FALSE]
    ELSE [snake_case |-> Append(st.snake_case, c), last_is_lowercase |-> TRUE]

RECURSIVE snake_loop(_, _, _)
\* The loop of to_snake_case from character i on
snake_loop(s, i, st) ==
    IF i > Len(s) THEN st ELSE snake_loop(s, i + 1, snake_step(st, s[i]))

\* to_snake_case starting with the flag set
to_snake_case_flag_initially_set(s) ==
    snake_loop(s, 1, [snake_case |-> <<>>, last_is_lowercase |-> TRUE]).snake_case

to_snake_case(s) ==
    snake_loop(s, 1, [snake_case |-> <<>>, last_is_lowercase |-> FALSE]).snake_case

(***************************************************************************)
(* Rendering of types, paths, bounds, generic parameters and where-clauses.*)
(* A rendering function returns Ok(text) or the panic that ends the macro. *)
(* A local value that is used more than once is bound by                   *)
(* The({e(x) : x \in {v}}), "let x = v in e(x)", so that v is evaluated    *)
(* once.                                                                   *)
(***************************************************************************)
The(S) == CHOOSE r \in S : TRUE

Ok(v) == [ok |-> TRUE, val |-> v]

Panic(msg) == [ok |-> FALSE, panic |-> msg]

\* unimplemented!()
Unimplemented == Panic("not implemented")

RECURSIVE first_panic(_, _)
\* The first panic among results rs[i..], or 0 when there is none: an
\* iterator's map(..).collect() stops at the first element that panics
first_panic(rs, i) ==
    IF i > Len(rs) THEN 0
    ELSE IF ~rs[i].ok THEN i ELSE first_panic(rs, i + 1)

\* collect leaving out the elements that panic
collect_skipping_panics(rs) ==
    Ok([i \in 1..Len(SelectSeq(rs, LAMBDA r : r.ok)) |->
           SelectSeq(rs, LAMBDA r : r.ok)[i].val])

\* map(..).collect(): the values in order, or the first panic
collect(rs) ==
    The({IF p = 0 THEN Ok([i \in 1..Len(v) |-> v[i].val]) ELSE v[p] :
            <<v, p>> \in {<<v, first_panic(v, 1)>> : v \in {rs}}})

RECURSIVE join(_, _)
\* [String]::join
join(strs, sep) ==
    IF Len(strs) = 0 THEN ""
    ELSE IF Len(strs) = 1 THEN strs[1]
    ELSE strs[1] \o sep \o join(Tail(strs), sep)

Digit(n) ==
    CASE n = 0 -> "0" [] n = 1 -> "1" [] n = 2 -> "2" [] n = 3 -> "3"
      [] n = 4 -> "4" [] n = 5 -> "5" [] n = 6 -> "6" [] n = 7 -> "7"
      [] n = 8 -> "8" [] n = 9 -> "9"

RECURSIVE usize_to_string(_)
\* Display for usize
usize_to_string(n) ==
    IF n < 10 THEN Digit(n) ELSE usize_to_string(n \div 10) \o Digit(n % 10)

RECURSIVE ident_to_string(_)
\* Ident::to_string for an identifier kept as a sequence of characters
ident_to_string(chars) ==
    IF Len(chars) = 0 THEN "" ELSE chars[1] \o ident_to_string(Tail(chars))

lifetime_to_string(lf) == "'" \o lf.ident

lit_to_string(l) ==
    IF l.kind \in {"ByteStr", "Verbatim"} THEN Unimplemented ELSE Ok(l.text)

expr_to_string(e) ==
    IF e.kind = "Lit" THEN lit_to_string(e.lit) ELSE Unimplemented

UnsupportedTypeTags ==
    {"BareFn", "Group", "ImplTrait", "Infer", "Macro", "Never", "Paren", "Ptr",
     "TraitObject", "Verbatim"}

RECURSIVE type_to_string(_)
RECURSIVE generic_argument_to_string(_)
RECURSIVE path_to_string(_)
RECURSIVE type_param_bounds_to_string(_)

binding_to_string(b) ==
    The({IF ty.ok THEN Ok(b.ident \o " = " \o ty.val) ELSE ty :
            ty \in {type_to_string(b.ty)}})

constraint_to_string(c) ==
    The({IF bs.ok THEN Ok(c.ident \o " : " \o bs.val) ELSE bs :
            bs \in {type_param_bounds_to_string(c.bounds)}})

angle_bracketed_generic_arguments_to_string(args) ==
    The({IF ~rs.ok THEN rs
         ELSE IF Len(rs.val) = 0 THEN Ok("")
         ELSE Ok("<" \o join(rs.val, ", ") \o ">") :
            rs \in {collect([i \in 1..Len(args) |->
                                generic_argument_to_string(args[i])])}})

generic_argument_to_string(a) ==
    CASE a.kind = "Lifetime" -> Ok(lifetime_to_string(a.lifetime))
      [] a.kind = "Type" -> type_to_string(a.ty)
      [] a.kind = "Binding" -> binding_to_string(a)
      [] a.kind = "Constraint" -> constraint_to_string(a)
      [] a.kind = "Const" -> expr_to_string(a.expr)

path_segment_to_string(ps) ==
    CASE ps.arguments.kind = "None" -> Ok(ps.ident)
      [] ps.arguments.kind = "AngleBracketed" ->
            The({IF args.ok THEN Ok(ps.ident \o args.val) ELSE args :
                    args \in {angle_bracketed_generic_arguments_to_string(
                                  ps.arguments.args)}})
      [] ps.arguments.kind = "Parenthesized" -> Unimplemented

path_to_string(path) ==
    The({IF rs.ok THEN Ok(join(rs.val, "::")) ELSE rs :
            rs \in {collect([i \in 1..Len(path.segments) |->
                                path_segment_to_string(path.segments[i])])}})

type_path_to_string(tp) ==
    IF tp.qself
    THEN Panic("assertion failed: tp.qself.is_none()")
    ELSE path_to_string(tp.path)

type_to_string(ty) ==
    CASE ty.tag = "Array" ->
            The({IF ~elem.ok THEN elem
                 ELSE IF ~len.ok THEN len
                 ELSE Ok("[" \o elem.val \o "; " \o len.val \o "]") :
                    elem \in {type_to_string(ty.elem)},
                    len \in {expr_to_string(ty.len)}})
      [] ty.tag \in UnsupportedTypeTags ->
            Panic("type_to_string: unexpected type: " \o ty.tag)
      [] ty.tag = "Path" -> type_path_to_string(ty)
      [] ty.tag = "Reference" ->
            The({IF elem.ok THEN Ok(mutability \o " " \o elem.val) ELSE elem :
                    elem \in {type_to_string(ty.elem)},
                    mutability \in
                        {"&" \o (IF ty.lifetime.some
                                 THEN lifetime_to_string(ty.lifetime.val) ELSE "")
                             \o (IF ty.mutability THEN " mut" ELSE "")}})
      [] ty.tag = "Slice" ->
            The({IF elem.ok THEN Ok("[" \o elem.val \o "]") ELSE elem :
                    elem \in {type_to_string(ty.elem)}})
      [] ty.tag = "Tuple" ->
            The({IF tys.ok THEN Ok("(" \o join(tys.val, ", ") \o ")") ELSE tys :
                    tys \in {collect([i \in 1..Len(ty.elems) |->
                                         type_to_string(ty.elems[i])])}})
      [] OTHER -> Panic("type_to_string: unexpected type")

trait_bound_to_string(tb) ==
    IF tb.modifier = "Maybe" THEN Unimplemented
    ELSE IF tb.lifetimes THEN Panic("assertion failed: tb.lifetimes.is_none()")
    ELSE path_to_string(tb.path)

type_param_bounds_to_string(bounds) ==
    The({IF s.ok THEN Ok(join(s.val, " + ")) ELSE s :
            s \in {collect([i \in 1..Len(bounds) |->
                               IF bounds[i].kind = "Trait"
                               THEN trait_bound_to_string(bounds[i])
                               ELSE Ok(lifetime_to_string(bounds[i].lifetime))])}})

lifetime_bounds_to_string(bounds) ==
    join([i \in 1..Len(bounds) |-> lifetime_to_string(bounds[i])], " + ")

generic_param_with_opt_constraints_to_string(param, with_constraints) ==
    CASE param.kind = "Type" ->
            IF Len(param.bounds) = 0 \/ ~with_constraints
            THEN Ok(param.ident)
            ELSE The({IF bs.ok THEN Ok(param.ident \o " : " \o bs.val) ELSE bs :
                         bs \in {type_param_bounds_to_string(param.bounds)}})
      [] param.kind = "Lifetime" ->
            IF Len(param.bounds) = 0 \/ ~with_constraints
            THEN Ok(lifetime_to_string(param.lifetime))
            ELSE Ok(lifetime_to_string(param.lifetime) \o " : "
                    \o lifetime_bounds_to_string(param.bounds))
      [] param.kind = "Const" -> Unimplemented

generic_params_with_opt_constraints_to_string(params, with_constraints) ==
    The({IF ~gens.ok THEN gens
         ELSE IF Len(gens.val) = 0 THEN Ok("")
         ELSE Ok("<" \o join(gens.val, ", ") \o ">") :
            gens \in {collect([i \in 1..Len(params) |->
                          generic_param_with_opt_constraints_to_string(
                              params[i], with_constraints)])}})

generic_params_to_string(params) ==
    generic_params_with_opt_constraints_to_string(params, TRUE)

generic_params_without_constraints_to_string(params) ==
    generic_params_with_opt_constraints_to_string(params, FALSE)

\* where_predicate_to_string writing " : " after every bounded type
where_predicate_to_string_always_colon(wp) ==
    CASE wp.kind = "Type" ->
            IF wp.lifetimes
            THEN Panic("assertion failed: pred_type.lifetimes.is_none()")
            ELSE The({IF ~ty.ok THEN ty
                      ELSE IF bs.ok THEN Ok(ty.val \o " : " \o bs.val)
                      ELSE bs :
                         ty \in {type_to_string(wp.bounded_ty)},
                         bs \in {type_param_bounds_to_string(wp.bounds)}})
      [] wp.kind = "Lifetime" ->
            Ok(lifetime_to_string(wp.lifetime) \o " : "
               \o lifetime_bounds_to_string(wp.bounds))
      [] wp.kind = "Eq" ->
            The({IF ~lhs.ok THEN lhs
                 ELSE IF ~rhs.ok THEN rhs
                 ELSE Ok(lhs.val \o " = " \o rhs.val) :
                    lhs \in {type_to_string(wp.lhs_ty)},
                    rhs \in {type_to_string(wp.rhs_ty)}})

where_predicate_to_string(wp) ==
    CASE wp.kind = "Type" ->
            IF wp.lifetimes
            THEN Panic("assertion failed: pred_type.lifetimes.is_none()")
            ELSE The({IF ~ty.ok THEN ty
                      ELSE IF Len(wp.bounds) = 0 THEN ty
                      ELSE IF bs.ok THEN Ok(ty.val \o " : " \o bs.val)
                      ELSE bs :
                         ty \in {type_to_string(wp.bounded_ty)},
                         bs \in {type_param_bounds_to_string(wp.bounds)}})
      [] wp.kind = "Lifetime" ->
            Ok(lifetime_to_string(wp.lifetime) \o " : "
               \o lifetime_bounds_to_string(wp.bounds))
      [] wp.kind = "Eq" ->
            The({IF ~lhs.ok THEN lhs
                 ELSE IF ~rhs.ok THEN rhs
                 ELSE Ok(lhs.val \o " = " \o rhs.val) :
                    lhs \in {type_to_string(wp.lhs_ty)},
                    rhs \in {type_to_string(wp.rhs_ty)}})

where_clause_to_string(wc) ==
    The({IF ~preds.ok THEN preds
         ELSE Ok("\nwhere\n"
                 \o join([i \in 1..Len(preds.val) |->
                             "    " \o preds.val[i] \o ",\n"], "")) :
            preds \in {collect([i \in 1..Len(wc.predicates) |->
                                   where_predicate_to_string(wc.predicates[i])])}})

opt_where_clause_to_string(wc) ==
    IF wc.some THEN where_clause_to_string(wc.val) ELSE Ok("")

(***************************************************************************)
(* generate_variant_match_patterns.  Besides the text of the pattern, a    *)
(* MatchPattern of the model keeps the pattern's parts (pat): the variant  *)
(* it names and, per field, the field it selects (by identifier, or by     *)
(* position from 0 in a tuple pattern) and the variable bound to it.       *)
(***************************************************************************)
THREE_TABS == "            "

\* generate_varname leaving var_index as it was
generate_varname_no_incr(var_index, patvar_name) ==
    IF ~patvar_name.some
    THEN [var |-> "_", var_index |-> var_index]
    ELSE [var |-> patvar_name.val \o usize_to_string(var_index),
          var_index |-> var_index]

\* generate_varname: the variable and the var_index left behind.  var_index
\* counts the fields of one variant, far below the usize::MAX of the host
\* the macro runs on, so checked_add(1).unwrap() is var_index + 1
generate_varname(var_index, patvar_name) ==
    IF ~patvar_name.some
    THEN [var |-> "_", var_index |-> var_index]
    ELSE [var |-> patvar_name.val \o usize_to_string(var_index),
          var_index |-> var_index + 1]

\* The variables of n generate_varname calls numbered from var_index + 1
generate_varnames_from_one(n, var_index, patvar_name) ==
    [k \in 1..n |-> generate_varname(var_index + k, patvar_name).var]

RECURSIVE generate_varnames(_, _, _)
\* The variables of n successive generate_varname calls from var_index on
generate_varnames(n, var_index, patvar_name) ==
    IF n = 0 THEN <<>>
    ELSE LET v == generate_varname(var_index, patvar_name)
         IN  <<v.var>> \o generate_varnames(n - 1, v.var_index, patvar_name)

\* The field types of a variant, in declaration order
field_types(fields) ==
    CASE fields.kind = "Named" -> [i \in 1..Len(fields.named) |-> fields.named[i].ty]
      [] fields.kind = "Unnamed" -> [i \in 1..Len(fields.unnamed) |-> fields.unnamed[i].ty]
      [] fields.kind = "Unit" -> <<>>

\* Per field, the field a pattern selects and the variable it binds to it
field_binds(fields, all_vars) ==
    CASE fields.kind = "Named" ->
            [i \in 1..Len(all_vars) |->
                [field |-> fields.named[i].ident, var |-> all_vars[i]]]
      [] fields.kind = "Unnamed" ->
            [i \in 1..Len(all_vars) |->
                [field |-> usize_to_string(i - 1), var |-> all_vars[i]]]
      [] fields.kind = "Unit" -> <<>>

\* The pattern without the variant constructor
fields_pattern(fields, all_vars) ==
    CASE fields.kind = "Named" ->
            "{ " \o join([i \in 1..Len(all_vars) |->
                             fields.named[i].ident \o ":" \o all_vars[i]], ", ")
                 \o " }"
      [] fields.kind = "Unnamed" -> "(" \o join(all_vars, ", ") \o ")"
      [] fields.kind = "Unit" -> ""

\* The body of the loop of generate_variant_match_patterns for one variant
variant_match_pattern(enum_name, variant, patvar_name) ==
    The({IF ~vartypes.ok THEN vartypes
         ELSE Ok([variant_id |-> variant.ident,
                  match_pattern |->
                      enum_name \o "::" \o ident_to_string(variant.ident)
                          \o fields_pattern(variant.fields, all_vars),
                  pat |-> [wildcard |-> FALSE, enum |-> enum_name,
                           variant |-> variant.ident,
                           fields |-> variant.fields.kind,
                           binds |-> field_binds(variant.fields, all_vars)],
                  num_args |-> Len(all_vars),
                  named_args |-> IF ~patvar_name.some THEN <<>> ELSE all_vars,
                  arg_types |-> vartypes.val]) :
            all_vars \in {generate_varnames(Len(field_types(variant.fields)), 0,
                                            patvar_name)},
            vartypes \in {collect([i \in 1..Len(field_types(variant.fields)) |->
                               type_to_string(field_types(variant.fields)[i])])}})

generate_variant_match_patterns(enum_name, data, patvar_name) ==
    collect([i \in 1..Len(data.variants) |->
                variant_match_pattern(enum_name, data.variants[i], patvar_name)])

(***************************************************************************)
(* The derive macros.  The emitted text is kept in parts: an impl block is *)
(* its header texts and its methods, a method is its name, its return type *)
(* and the arms of its match, an arm is its pattern and its body.          *)
(***************************************************************************)
EmptyTokens == [kind |-> "empty", methods |-> <<>>]

\* impl{gpw} {adt_name}{gpwo}{wc} {{ methods }}
ImplBlock(gpw, adt_name, gpwo, wc, methods) ==
    [kind |-> "impl",
     generics_with |-> gpw,
     adt_name |-> adt_name,
     generics_without |-> gpwo,
     where_clause |-> wc,
     methods |-> methods]

WildcardPat == [wildcard |-> TRUE]

\* The arm of variant_name for one pattern
variant_name_branch(mp) ==
    [pat |-> mp.pat, head |-> mp.match_pattern,
     body |-> [kind |-> "str", value |-> ident_to_string(mp.variant_id)]]

\* The match of derive_variant_name with a struct or union taken for an
\* enum without variants
variant_name_branches_no_reject(adt_name, data) ==
    IF data.kind = "Enum"
    THEN The({IF ~patterns.ok THEN patterns
              ELSE Ok([i \in 1..Len(patterns.val) |->
                          variant_name_branch(patterns.val[i])]) :
                 patterns \in {generate_variant_match_patterns(adt_name, data,
                                                               None)}})
    ELSE Ok(<<>>)

\* The match on ast.data of derive_variant_name
variant_name_branches(adt_name, data) ==
    CASE data.kind = "Enum" ->
            The({IF ~patterns.ok THEN patterns
                 ELSE Ok([i \in 1..Len(patterns.val) |->
                             variant_name_branch(patterns.val[i])]) :
                    patterns \in {generate_variant_match_patterns(adt_name, data,
                                                                  None)}})
      [] data.kind = "Struct" ->
            Panic("VariantName macro can not be called on structs")
      [] data.kind = "Union" ->
            Panic("VariantName macro can not be called on unions")

\* The end of derive_variant_name: one impl block, or nothing
variant_name_impl(gpw, adt_name, gpwo, wc, match_branches) ==
    IF Len(match_branches) > 0
    THEN ImplBlock(gpw, adt_name, gpwo, wc,
                   <<[name |-> "variant_name", ret |-> "&'static str",
                      arms |-> match_branches]>>)
    ELSE EmptyTokens

derive_variant_name(ast) ==
    The({IF ~gpw.ok THEN gpw
         ELSE IF ~gpwo.ok THEN gpwo
         ELSE IF ~wc.ok THEN wc
         ELSE IF ~match_branches.ok THEN match_branches
         ELSE Ok(variant_name_impl(gpw.val, ast.ident, gpwo.val, wc.val,
                 match_branches.val)) :
            gpw \in {generic_params_to_string(ast.generics.params)},
            gpwo \in {generic_params_without_constraints_to_string(
                          ast.generics.params)},
            wc \in {opt_where_clause_to_string(ast.generics.where_clause)},
            match_branches \in {variant_name_branches(ast.ident, ast.data)}})

\* The arm of variant_index_arity with the arity taken from the variables
\* the pattern introduces
variant_index_arity_branch_named_args(i, mp) ==
    [pat |-> mp.pat, head |-> mp.match_pattern,
     body |-> [kind |-> "pair", index |-> i, arity |-> Len(mp.named_args)]]

\* The arm of variant_index_arity for pattern number i (from 0)
variant_index_arity_branch(i, mp) ==
    [pat |-> mp.pat, head |-> mp.match_pattern,
     body |-> [kind |-> "pair", index |-> i, arity |-> mp.num_args]]

\* The match on ast.data of derive_variant_index_arity
variant_index_arity_branches(adt_name, data) ==
    CASE data.kind = "Enum" ->
            The({IF ~patterns.ok THEN patterns
                 ELSE Ok([i \in 1..Len(patterns.val) |->
                             variant_index_arity_branch(i - 1, patterns.val[i])]) :
                    patterns \in {generate_variant_match_patterns(adt_name, data,
                                                                  None)}})
      [] data.kind = "Struct" ->
            Panic("VariantIndex macro can not be called on structs")
      [] data.kind = "Union" ->
            Panic("VariantIndex macro can not be called on unions")

\* The end of derive_variant_index_arity: one impl block, or nothing
variant_index_arity_impl(gpw, adt_name, gpwo, wc, match_branches) ==
    IF Len(match_branches) > 0
    THEN ImplBlock(gpw, adt_name, gpwo, wc,
                   <<[name |-> "variant_index_arity", ret |-> "(u32, usize)",
                      arms |-> match_branches]>>)
    ELSE EmptyTokens

derive_variant_index_arity(ast) ==
    The({IF ~gpw.ok THEN gpw
         ELSE IF ~gpwo.ok THEN gpwo
         ELSE IF ~wc.ok THEN wc
         ELSE IF ~match_branches.ok THEN match_branches
         ELSE Ok(variant_index_arity_impl(gpw.val, ast.ident, gpwo.val, wc.val,
                 match_branches.val)) :
            gpw \in {generic_params_to_string(ast.generics.params)},
            gpwo \in {generic_params_without_constraints_to_string(
                          ast.generics.params)},
            wc \in {opt_where_clause_to_string(ast.generics.where_clause)},
            match_branches \in {variant_index_arity_branches(ast.ident, ast.data)}})

\* EnumMethodKind::variant_name
method_kind_variant_name(method_kind) == method_kind

\* several_variants true from three variants on
several_variants_from_three(data) == Len(data.variants) > 2

\* let several_variants = data.variants.len() > 1
several_variants(data) == Len(data.variants) > 1

\* fn {is_,as_}{snake case of the variant}
method_name(prefix, mp) ==
    prefix \o ident_to_string(to_snake_case(mp.variant_id))

\* The method of EnumIsA with the otherwise branch in every case
is_a_method_always_otherwise(mp, several) ==
    [name |-> method_name("is_", mp),
     ret |-> "bool",
     arms |->
         <<[pat |-> mp.pat, head |-> mp.match_pattern,
            body |-> [kind |-> "bool", value |-> TRUE]],
           [pat |-> WildcardPat, head |-> "_",
            body |-> [kind |-> "bool", value |-> FALSE]]>>]

\* The method of EnumIsA for one pattern
is_a_method(mp, several) ==
    [name |-> method_name("is_", mp),
     ret |-> "bool",
     arms |->
         <<[pat |-> mp.pat, head |-> mp.match_pattern,
            body |-> [kind |-> "bool", value |-> TRUE]]>>
         \o (IF several
             THEN <<[pat |-> WildcardPat, head |-> "_",
                     body |-> [kind |-> "bool", value |-> FALSE]]>>
             ELSE <<>>)]

\* The method of EnumAsGetters for one pattern
as_getter_method(adt_name, mp, several) ==
    [name |-> method_name("as_", mp),
     ret |-> "(" \o join([i \in 1..Len(mp.arg_types) |->
                             "&(" \o mp.arg_types[i] \o ")"], ", ") \o ")",
     arms |->
         <<[pat |-> mp.pat, head |-> mp.match_pattern,
            body |-> [kind |-> "vars", names |-> mp.named_args,
                      text |-> "(" \o join(mp.named_args, ", ") \o ")"]]>>
         \o (IF several
             THEN <<[pat |-> WildcardPat, head |-> "_",
                     body |-> [kind |-> "unreachable",
                               message |-> adt_name \o "::" \o method_name("as_", mp)
                                           \o ": Not the proper variant"]]>>
             ELSE <<>>)]

\* The match on ast.data of derive_enum_variant_method
enum_variant_methods(adt_name, data, method_kind) ==
    CASE data.kind = "Enum" ->
            The({IF ~patterns.ok THEN patterns
                 ELSE IF method_kind = "EnumIsA"
                 THEN Ok([i \in 1..Len(patterns.val) |->
                             is_a_method(patterns.val[i], several_variants(data))])
                 ELSE Ok([i \in 1..Len(patterns.val) |->
                             as_getter_method(adt_name, patterns.val[i],
                                              several_variants(data))]) :
                    patterns \in {generate_variant_match_patterns(
                                      adt_name, data,
                                      IF method_kind = "EnumIsA"
                                      THEN None ELSE Some("x"))}})
      [] data.kind = "Struct" ->
            Panic(method_kind_variant_name(method_kind)
                  \o " macro can not be called on structs")
      [] data.kind = "Union" ->
            Panic(method_kind_variant_name(method_kind)
                  \o " macro can not be called on unions")

\* The end of derive_enum_variant_method without the test for no method
enum_variant_impl_unconditional(gpw, adt_name, gpwo, wc, impls) ==
    ImplBlock(gpw, adt_name, gpwo, wc, impls)

\* The end of derive_enum_variant_method: one impl block, or nothing
enum_variant_impl(gpw, adt_name, gpwo, wc, impls) ==
    IF Len(impls) > 0
    THEN ImplBlock(gpw, adt_name, gpwo, wc, impls)
    ELSE EmptyTokens

derive_enum_variant_method(ast, method_kind) ==
    The({IF ~gpw.ok THEN gpw
         ELSE IF ~gpwo.ok THEN gpwo
         ELSE IF ~wc.ok THEN wc
         ELSE IF ~impls.ok THEN impls
         ELSE Ok(enum_variant_impl(gpw.val, ast.ident, gpwo.val, wc.val,
                                   impls.val)) :
            gpw \in {generic_params_to_string(ast.generics.params)},
            gpwo \in {generic_params_without_constraints_to_string(
                          ast.generics.params)},
            wc \in {opt_where_clause_to_string(ast.generics.where_clause)},
            impls \in {enum_variant_methods(ast.ident, ast.data, method_kind)}})

derive_enum_is_a(ast) == derive_enum_variant_method(ast, "EnumIsA")

derive_enum_as_getters(ast) == derive_enum_variant_method(ast, "EnumAsGetters")

(***************************************************************************)
(* generate_index_type: the macro that emits the index module.             *)
(***************************************************************************)
InvalidParameters ==
    "generate_index_type: invalid parameters: should receive exactly one identifier"

\* format!(index_generic_code!(), ident): the module, named after ident,
\* with the items of the template
index_generic_code(ident) ==
    [kind |-> "mod", name |-> ident,
     head |-> "\npub mod " \o ident \o " {",
     items |-> <<"struct Id", "struct Generator", "type Vector", "impl Id",
                 "static ZERO", "static ONE",
                 "impl crate::id_vector::ToUsize for Id",
                 "impl crate::id_vector::Increment for Id",
                 "impl crate::id_vector::Zero for Id",
                 "impl std::fmt::Display for Id", "impl serde::Serialize for Id",
                 "impl Generator">>]

\* generate_index_type looking only at the first token it receives
generate_index_type_first_token(tokens) ==
    IF Len(tokens) = 0
    THEN Panic(InvalidParameters)
    ELSE IF tokens[1].kind = "Ident"
         THEN Ok(index_generic_code(tokens[1].ident))
         ELSE Panic(InvalidParameters)

\* generate_index_type applied to the token trees of its input
generate_index_type(tokens) ==
    IF Len(tokens) # 1
    THEN Panic(InvalidParameters)
    ELSE IF tokens[1].kind = "Ident"
         THEN Ok(index_generic_code(tokens[1].ident))
         ELSE Panic(InvalidParameters)

(***************************************************************************)
(* The emitted methods at run time: Rust's match on an instance of the     *)
(* enum.  An instance is a variant and its fields in declaration order; a  *)
(* reference to a field is the field's slot (its position from 1).         *)
(***************************************************************************)
\* The name of field number i (from 1) of a variant: its identifier, or its
\* position from 0 in a tuple variant
field_name(fields, i) ==
    IF fields.kind = "Named" THEN fields.named[i].ident ELSE usize_to_string(i - 1)

instance_of(ast, v) ==
    LET variant == ast.data.variants[v]
    IN  [enum |-> ast.ident,
         variant |-> variant.ident,
         fields |-> [i \in 1..Len(field_types(variant.fields)) |->
                        [name |-> field_name(variant.fields, i), slot |-> i]]]

\* Whether a pattern matches an instance
pattern_matches(pat, inst) ==
    pat.wildcard \/ (pat.enum = inst.enum /\ pat.variant = inst.variant)

RECURSIVE first_matching_arm(_, _, _)
\* The first arm from arm i on whose pattern matches, or 0
first_matching_arm(arms, inst, i) ==
    IF i > Len(arms) THEN 0
    ELSE IF pattern_matches(arms[i].pat, inst) THEN i
    ELSE first_matching_arm(arms, inst, i + 1)

\* The slots of the fields that variable var is bound to by the pattern
bound_slots(pat, inst, var) ==
    {inst.fields[j].slot : j \in
        {j \in 1..Len(inst.fields) :
            \E b \in 1..Len(pat.binds) :
                pat.binds[b].var = var /\ pat.binds[b].field = inst.fields[j].name}}

\* The value of an arm's body with the pattern's variables bound
eval_body(arm, inst) ==
    CASE arm.body.kind = "str" -> [kind |-> "str", value |-> arm.body.value]
      [] arm.body.kind = "pair" ->
            [kind |-> "pair", index |-> arm.body.index, arity |-> arm.body.arity]
      [] arm.body.kind = "bool" -> [kind |-> "bool", value |-> arm.body.value]
      [] arm.body.kind = "vars" ->
            [kind |-> "refs",
             refs |-> [k \in 1..Len(arm.body.names) |->
                          bound_slots(arm.pat, inst, arm.body.names[k])]]
      [] arm.body.kind = "unreachable" ->
            [kind |-> "panic", message |-> arm.body.message]

\* A call of an emitted method on an instance
call_method(method, inst) ==
    The({IF a = 0 THEN [kind |-> "no_arm"] ELSE eval_body(method.arms[a], inst) :
            a \in {first_matching_arm(method.arms, inst, 1)}})

(***************************************************************************)
(* remove_drop_never.  A statement is [meta, content]; a place is          *)
(* [var_id, projection]; locals is the vector of the body's variables,     *)
(* indexed by var_id from 0.                                               *)
(***************************************************************************)
Nop == [kind |-> "Nop"]

\* Statement::new(meta, content)
Statement_new(meta, content) == [meta |-> meta, content |-> content]

\* transform_st that does not look at the projection of the dropped place
transform_st_any_projection(locals_, st_) ==
    IF st_.content.kind = "Drop"
    THEN IF st_.content.place.var_id >= Len(locals_)
         THEN Panic("called Option::unwrap() on a None value")
         ELSE IF locals_[st_.content.place.var_id + 1].ty = "Never"
              THEN Ok(Statement_new(st_.meta, Nop))
              ELSE Ok(st_)
    ELSE Ok(st_)

\* transform_st: the statement handed back, or the panic of
\* locals.get(p.var_id).unwrap() on a variable the body does not have;
\* var.ty.is_never() holds of the type Never only
transform_st(locals_, st_) ==
    IF st_.content.kind = "Drop"
    THEN IF Len(st_.content.place.projection) = 0
         THEN IF st_.content.place.var_id >= Len(locals_)
              THEN Panic("called Option::unwrap() on a None value")
              ELSE IF locals_[st_.content.place.var_id + 1].ty = "Never"
                   THEN Ok(Statement_new(st_.meta, Nop))
                   ELSE Ok(st_)
         ELSE Ok(st_)
    ELSE Ok(st_)

(***************************************************************************)
(* The emitted index module at run time.  A panic ends the program.        *)
(***************************************************************************)
GeneratorFreshId ==
    /\ panicked = "none"
    /\ LET r == fresh_id(generator, usize_bits)
       IN  /\ generator' = r.self
           /\ minted' = IF r.panic THEN minted ELSE Append(minted, r.ret)
           /\ panicked' = IF r.panic THEN "fresh_id" ELSE "none"
           /\ last' = [op |-> "fresh_id", before |-> generator.counter,
                       panic |-> r.panic,
                       ret |-> IF r.panic THEN -1 ELSE r.ret.index]
    /\ UNCHANGED <<usize_bits, id, wire, snake_vars, derive_vars, gen_vars, drop_vars>>

IdNew(init) ==
    /\ panicked = "none"
    /\ id' = Id_new(init)
    /\ last' = [op |-> "Id::new", before |-> init, panic |-> FALSE, ret |-> init]
    /\ UNCHANGED <<usize_bits, generator, minted, wire, panicked, snake_vars, derive_vars, gen_vars, drop_vars>>

IdIncr ==
    /\ panicked = "none"
    /\ id # NoId
    /\ LET r == Id_incr(id, usize_bits)
       IN  /\ id' = r.self
           /\ panicked' = IF r.panic THEN "incr" ELSE "none"
           /\ last' = [op |-> "incr", before |-> id.index, panic |-> r.panic,
                       ret |-> -1]
    /\ UNCHANGED <<usize_bits, generator, minted, wire, snake_vars, derive_vars, gen_vars, drop_vars>>

\* The handles the caller holds: its own Id and the ones fresh_id returned
Handles == ({id} \ {NoId}) \cup {minted[k] : k \in 1..Len(minted)}

IdSerialize(h) ==
    /\ panicked = "none"
    /\ LET r == serialize(h)
       IN  /\ wire' = IF r.panic THEN wire ELSE [call |-> r.call, arg |-> r.arg]
           /\ panicked' = IF r.panic THEN "serialize" ELSE "none"
           /\ last' = [op |-> "serialize", before |-> h.index, panic |-> r.panic,
                       ret |-> IF r.panic THEN -1 ELSE r.arg]
    /\ UNCHANGED <<usize_bits, generator, minted, id, snake_vars, derive_vars, gen_vars, drop_vars>>

IndexNext ==
    \/ GeneratorFreshId
    \/ \E init \in 0..USIZE_MAX(usize_bits) : IdNew(init)
    \/ IdIncr
    \/ \E h \in Handles : IdSerialize(h)

\* The state after Generator::new(), on either target
Init ==
    /\ usize_bits \in {U32Bits, U32Bits + ExtraBits}
    /\ generator = Generator_new
    /\ minted = <<>>
    /\ id = NoId
    /\ wire = NoWire
    /\ panicked = "none"
    /\ last = NoCall
    /\ snake_in = <<>>
    /\ snake_out = <<>>
    /\ snake_done = FALSE
    /\ item = [ident |-> "List"]
    /\ output = [macro |-> "none"]
    /\ call = [method |-> 0]
    /\ log = <<>>
    /\ result = [fn |-> "none"]
    /\ locals = <<>>
    /\ body = <<>>
    /\ body0 = <<>>
    /\ cursor = 0

Spec == Init /\ [][IndexNext]_vars

(***************************************************************************)
(* to_snake_case applied to an identifier drawn from a bounded set.        *)
(***************************************************************************)
SnakeAlphabet == {"A", "B", "a", "3", "_"}

ConstantValue == <<"C", "o", "n", "s", "t", "a", "n", "t", "V", "a", "l", "u", "e">>

I32 == <<"I", "3", "2">>

VARIANT == <<"V", "A", "R", "I", "A", "N", "T">>

SnakeInputs ==
    UNION {[1..n -> SnakeAlphabet] : n \in 0..MaxIdentLen}
        \cup {ConstantValue, I32, VARIANT}

SnakeInit ==
    /\ usize_bits = U32Bits
    /\ generator = Generator_new
    /\ minted = <<>>
    /\ id = NoId
    /\ wire = NoWire
    /\ panicked = "none"
    /\ last = NoCall
    /\ snake_in \in SnakeInputs
    /\ snake_out = <<>>
    /\ snake_done = FALSE
    /\ item = [ident |-> "List"]
    /\ output = [macro |-> "none"]
    /\ call = [method |-> 0]
    /\ log = <<>>
    /\ result = [fn |-> "none"]
    /\ locals = <<>>
    /\ body = <<>>
    /\ body0 = <<>>
    /\ cursor = 0

CallToSnakeCase ==
    /\ ~snake_done
    /\ snake_out' = to_snake_case(snake_in)
    /\ snake_done' = TRUE
    /\ UNCHANGED <<snake_in, index_vars, derive_vars, gen_vars, drop_vars>>

SnakeNext == CallToSnakeCase

SpecSnake == SnakeInit /\ [][SnakeNext]_vars

(***************************************************************************)
(* The derive macros applied to a declaration drawn from a bounded set,    *)
(* and the emitted methods called on an instance of the enum.              *)
(***************************************************************************)
NoLifetime == [some |-> FALSE]

PathOf(ident) ==
    [segments |-> <<[ident |-> ident, arguments |-> [kind |-> "None"]]>>]

TypeT == [tag |-> "Path", qself |-> FALSE, path |-> PathOf("T")]

\* List<T>
TypeListT ==
    [tag |-> "Path", qself |-> FALSE,
     path |-> [segments |->
                  <<[ident |-> "List",
                     arguments |-> [kind |-> "AngleBracketed",
                                    args |-> <<[kind |-> "Type", ty |-> TypeT]>>]]>>]]

\* &'a [T]
TypeRefSliceT ==
    [tag |-> "Reference", lifetime |-> Some([ident |-> "a"]), mutability |-> FALSE,
     elem |-> [tag |-> "Slice", elem |-> TypeT]]

\* !
TypeNever == [tag |-> "Never"]

SupportedFieldTypes == <<TypeT, TypeListT, TypeRefSliceT>>

\* The fields of a variant with k fields, named or positional: field i has
\* the i-th supported type (cyclically), or, when `bad`, the last field has
\* the unsupported type !
FieldsOf(kind, k, bad) ==
    LET ty(i) == IF bad /\ i = k THEN TypeNever
                 ELSE SupportedFieldTypes[((i - 1) % Len(SupportedFieldTypes)) + 1]
    IN  IF kind = "Named"
        THEN [kind |-> "Named",
              named |-> [i \in 1..k |-> [ident |-> "f" \o usize_to_string(i),
                                          ty |-> ty(i)]]]
        ELSE [kind |-> "Unnamed", unnamed |-> [i \in 1..k |-> [ty |-> ty(i)]]]

\* Unit, 0..MaxFields supported fields (named or positional), and two
\* shapes with a field of unsupported type
FieldShapes ==
    {[kind |-> "Unit"]}
        \cup {FieldsOf(kind, k, FALSE) :
                 kind \in {"Named", "Unnamed"}, k \in 0..MaxFields}
        \cup {FieldsOf("Named", 1, TRUE), FieldsOf("Unnamed", MaxFields, TRUE)}

Nil == <<"N", "i", "l">>

Cons == <<"C", "o", "n", "s">>

\* The names of the variants, by position
VariantIdents == <<I32, Cons, Nil, ConstantValue>>

\* Enums of n variants: variant i has the i-th name and any field shape
VariantLists(n) ==
    {[i \in 1..n |-> [ident |-> VariantIdents[i], fields |-> shapes[i]]] :
        shapes \in [1..n -> FieldShapes]}

EnumDatas ==
    {[kind |-> "Enum", variants |-> vs] :
        vs \in UNION {VariantLists(n) : n \in 0..MaxVariants}}

\* enum List<T> { Nil, Cons(T, List<T>) }
ListVariants ==
    <<[ident |-> Nil, fields |-> [kind |-> "Unit"]],
      [ident |-> Cons, fields |-> FieldsOf("Unnamed", 2, FALSE)]>>

TraitBound(ident, modifier, lifetimes) ==
    [kind |-> "Trait", modifier |-> modifier, lifetimes |-> lifetimes,
     path |-> PathOf(ident)]

LifetimeBound(ident) == [kind |-> "Lifetime", lifetime |-> [ident |-> ident]]

TypeParam(ident, bounds) == [kind |-> "Type", ident |-> ident, bounds |-> bounds]

LifetimeParam(ident, bounds) ==
    [kind |-> "Lifetime", lifetime |-> [ident |-> ident], bounds |-> bounds]

\* Generic parameter lists: <>, <T>, <'a, T : 'a + Clone>, <'a : 'b>,
\* <T : ?Sized>, <T : for<'b> Tr>, <T, const N: usize>
ParamLists ==
    {<<>>,
     <<TypeParam("T", <<>>)>>,
     <<LifetimeParam("a", <<>>),
       TypeParam("T", <<LifetimeBound("a"), TraitBound("Clone", "None", FALSE)>>)>>,
     <<LifetimeParam("a", <<[ident |-> "b"]>>)>>,
     <<TypeParam("T", <<TraitBound("Sized", "Maybe", FALSE)>>)>>,
     <<TypeParam("T", <<TraitBound("Tr", "None", TRUE)>>)>>,
     <<TypeParam("T", <<>>), [kind |-> "Const"]>>}

\* Where-clauses: none, `where`, `where T : Clone, 'a : 'b`, `where T = T`,
\* `where ! : Clone`, `where for<'b> T : Clone`
WhereClauses ==
    {None,
     Some([predicates |-> <<>>]),
     Some([predicates |->
              <<[kind |-> "Type", lifetimes |-> FALSE, bounded_ty |-> TypeT,
                 bounds |-> <<TraitBound("Clone", "None", FALSE)>>],
                [kind |-> "Lifetime", lifetime |-> [ident |-> "a"],
                 bounds |-> <<[ident |-> "b"]>>]>>]),
     Some([predicates |->
              <<[kind |-> "Eq", lhs_ty |-> TypeT, rhs_ty |-> TypeT]>>]),
     Some([predicates |->
              <<[kind |-> "Type", lifetimes |-> FALSE, bounded_ty |-> TypeNever,
                 bounds |-> <<TraitBound("Clone", "None", FALSE)>>]>>]),
     Some([predicates |->
              <<[kind |-> "Type", lifetimes |-> TRUE, bounded_ty |-> TypeT,
                 bounds |-> <<TraitBound("Clone", "None", FALSE)>>]>>])}

\* The declarations derived from: structs, unions and small enums under
\* every generic parameter list and where-clause, and every enum under <T>
Declarations ==
    {[ident |-> "List", generics |-> [params |-> ps, where_clause |-> wc],
      data |-> d] :
        ps \in ParamLists, wc \in WhereClauses,
        d \in {[kind |-> "Struct"], [kind |-> "Union"],
               [kind |-> "Enum", variants |-> <<>>],
               [kind |-> "Enum", variants |-> ListVariants]}}
    \cup
    {[ident |-> "List",
      generics |-> [params |-> <<TypeParam("T", <<>>)>>, where_clause |-> None],
      data |-> d] : d \in EnumDatas}

NotRun == [macro |-> "none", ok |-> FALSE, panic |-> "", tokens |-> EmptyTokens]

NotCalled == [method |-> 0, variant |-> 0, result |-> [kind |-> "none"]]

\* What a macro hands back: the tokens, or the panic that ends it
Outcome(macro, r) ==
    IF r.ok
    THEN [macro |-> macro, ok |-> TRUE, panic |-> "", tokens |-> r.val]
    ELSE [macro |-> macro, ok |-> FALSE, panic |-> r.panic, tokens |-> EmptyTokens]

DeriveInit ==
    /\ usize_bits = U32Bits
    /\ generator = Generator_new
    /\ minted = <<>>
    /\ id = NoId
    /\ wire = NoWire
    /\ panicked = "none"
    /\ last = NoCall
    /\ snake_in = <<>>
    /\ snake_out = <<>>
    /\ snake_done = FALSE
    /\ item \in Declarations
    /\ output = NotRun
    /\ call = NotCalled
    /\ log = <<>>
    /\ result = [fn |-> "none"]
    /\ locals = <<>>
    /\ body = <<>>
    /\ body0 = <<>>
    /\ cursor = 0

DeriveVariantName ==
    /\ output' = Outcome("VariantName", derive_variant_name(item))
    /\ call' = NotCalled
    /\ UNCHANGED <<item, index_vars, snake_vars, gen_vars, drop_vars>>

DeriveVariantIndexArity ==
    /\ output' = Outcome("VariantIndexArity", derive_variant_index_arity(item))
    /\ call' = NotCalled
    /\ UNCHANGED <<item, index_vars, snake_vars, gen_vars, drop_vars>>

DeriveEnumIsA ==
    /\ output' = Outcome("EnumIsA", derive_enum_is_a(item))
    /\ call' = NotCalled
    /\ UNCHANGED <<item, index_vars, snake_vars, gen_vars, drop_vars>>

DeriveEnumAsGetters ==
    /\ output' = Outcome("EnumAsGetters", derive_enum_as_getters(item))
    /\ call' = NotCalled
    /\ UNCHANGED <<item, index_vars, snake_vars, gen_vars, drop_vars>>

\* Emitted method number m called on an instance of variant number v
CallMethod(m, v) ==
    /\ output.ok
    /\ call' = [method |-> m, variant |-> v,
                result |-> call_method(output.tokens.methods[m], instance_of(item, v))]
    /\ UNCHANGED <<item, output, index_vars, snake_vars, gen_vars, drop_vars>>

DeriveNext ==
    \/ DeriveVariantName
    \/ DeriveVariantIndexArity
    \/ DeriveEnumIsA
    \/ DeriveEnumAsGetters
    \/ \E m \in 1..Len(output.tokens.methods) :
           \E v \in 1..Len(item.data.variants) : CallMethod(m, v)

SpecDerive == DeriveInit /\ [][DeriveNext]_vars

(***************************************************************************)
(* generate_index_type invoked several times, one invocation after the     *)
(* other.  The log keeps every invocation with what it handed back.        *)
(***************************************************************************)
IdentToken(ident) == [kind |-> "Ident", ident |-> ident]

PunctToken == [kind |-> "Punct", ch |-> ","]

LiteralToken == [kind |-> "Literal", text |-> "0"]

GroupToken == [kind |-> "Group", delimiter |-> "Parenthesis", stream |-> <<>>]

\* Inputs of generate_index_type: no token, one identifier, one token of
\* each other kind, two tokens
TokenStreams ==
    {<<>>,
     <<IdentToken("VarId")>>,
     <<PunctToken>>,
     <<LiteralToken>>,
     <<GroupToken>>,
     <<IdentToken("VarId"), IdentToken("DefId")>>,
     <<IdentToken("VarId"), PunctToken>>}

Request(kind, input, r) ==
    [kind |-> kind, input |-> input, outcome |-> Outcome(kind, r)]

GenInit ==
    /\ usize_bits = U32Bits
    /\ generator = Generator_new
    /\ minted = <<>>
    /\ id = NoId
    /\ wire = NoWire
    /\ panicked = "none"
    /\ last = NoCall
    /\ snake_in = <<>>
    /\ snake_out = <<>>
    /\ snake_done = FALSE
    /\ item = [ident |-> "List"]
    /\ output = [macro |-> "none"]
    /\ call = [method |-> 0]
    /\ log = <<>>
    /\ result = [fn |-> "none"]
    /\ locals = <<>>
    /\ body = <<>>
    /\ body0 = <<>>
    /\ cursor = 0

GenerateIndexType(tokens) ==
    /\ Len(log) < MaxRequests
    /\ log' = Append(log, Request("generate_index_type", tokens,
                                  generate_index_type(tokens)))
    /\ UNCHANGED <<result, index_vars, snake_vars, derive_vars, drop_vars>>

GenNext == \E tokens \in TokenStreams : GenerateIndexType(tokens)

SpecGen == GenInit /\ [][GenNext]_vars

(***************************************************************************)
(* The rendering functions applied to inputs drawn from bounded sets:      *)
(* type_to_string, opt_where_clause_to_string,                             *)
(* generate_variant_match_patterns, and the derive macros applied to an    *)
(* enum that has a field of a given type.  Each behaviour applies one      *)
(* function to one input.                                                  *)
(***************************************************************************)
LitExpr(text) == [kind |-> "Lit", lit |-> [kind |-> "Int", text |-> text]]

TypeArray(elem) == [tag |-> "Array", elem |-> elem, len |-> LitExpr("3")]

TypeReference(elem) ==
    [tag |-> "Reference", lifetime |-> None, mutability |-> TRUE, elem |-> elem]

TypeSlice(elem) == [tag |-> "Slice", elem |-> elem]

TypeTuple(elems) == [tag |-> "Tuple", elems |-> elems]

\* Vec<ty>
TypeVecOf(ty) ==
    [tag |-> "Path", qself |-> FALSE,
     path |-> [segments |->
                  <<[ident |-> "Vec",
                     arguments |-> [kind |-> "AngleBracketed",
                                    args |-> <<[kind |-> "Type", ty |-> ty]>>]]>>]]

\* T and one type of every shape type_to_string has no rendering for
TypeLeaves == {TypeT} \cup {[tag |-> tag] : tag \in UnsupportedTypeTags}

\* The types one constructor above the types of S
TypesOver(S) ==
    {TypeArray(ty) : ty \in S} \cup {TypeReference(ty) : ty \in S}
        \cup {TypeSlice(ty) : ty \in S} \cup {TypeVecOf(ty) : ty \in S}
        \cup {TypeTuple(<<TypeT, ty>>) : ty \in S}
        \cup {TypeTuple(<<ty, [tag |-> "Ptr"]>>) : ty \in S}

RECURSIVE Types(_)
\* The types nested at most depth deep
Types(depth) ==
    IF depth = 0 THEN TypeLeaves
    ELSE Types(depth - 1) \cup TypesOver(Types(depth - 1))

\* enum List<T> { Nil, Cons(T, ty) }
EnumWithField(ty) ==
    [ident |-> "List",
     generics |-> [params |-> <<TypeParam("T", <<>>)>>, where_clause |-> None],
     data |-> [kind |-> "Enum",
               variants |-> <<[ident |-> Nil, fields |-> [kind |-> "Unit"]],
                              [ident |-> Cons,
                               fields |-> [kind |-> "Unnamed",
                                           unnamed |-> <<[ty |-> TypeT],
                                                         [ty |-> ty]>>]]>>]]

\* The derive macro of the given name
derive(macro, ast) ==
    CASE macro = "VariantName" -> derive_variant_name(ast)
      [] macro = "VariantIndexArity" -> derive_variant_index_arity(ast)
      [] macro = "EnumIsA" -> derive_enum_is_a(ast)
      [] macro = "EnumAsGetters" -> derive_enum_as_getters(ast)

DeriveMacros == {"VariantName", "VariantIndexArity", "EnumIsA", "EnumAsGetters"}

TypePredicate(ty, bounds) ==
    [kind |-> "Type", lifetimes |-> FALSE, bounded_ty |-> ty, bounds |-> bounds]

LifetimePredicate(ident, bounds) ==
    [kind |-> "Lifetime", lifetime |-> [ident |-> ident], bounds |-> bounds]

\* T : Clone / T : 'a + Clone / T : / 'a : 'b / 'a : 'b + 'c / 'a : /
\* T = List<T> / ! : Clone
WherePredicates ==
    {TypePredicate(TypeT, <<TraitBound("Clone", "None", FALSE)>>),
     TypePredicate(TypeT, <<LifetimeBound("a"), TraitBound("Clone", "None", FALSE)>>),
     TypePredicate(TypeT, <<>>),
     LifetimePredicate("a", <<[ident |-> "b"]>>),
     LifetimePredicate("a", <<[ident |-> "b"], [ident |-> "c"]>>),
     LifetimePredicate("a", <<>>),
     [kind |-> "Eq", lhs_ty |-> TypeT, rhs_ty |-> TypeListT],
     TypePredicate(TypeNever, <<TraitBound("Clone", "None", FALSE)>>)}

\* No where-clause, and the where-clauses of up to MaxPredicates predicates
OptWhereClauses ==
    {None} \cup {Some([predicates |-> ps]) :
                    ps \in UNION {[1..n -> WherePredicates] : n \in 0..MaxPredicates}}

PatvarNames == {None, Some("x"), Some("hd")}

Applied(fn, input, outcome) == [fn |-> fn, input |-> input, outcome |-> outcome]

RenderInit ==
    /\ usize_bits = U32Bits
    /\ generator = Generator_new
    /\ minted = <<>>
    /\ id = NoId
    /\ wire = NoWire
    /\ panicked = "none"
    /\ last = NoCall
    /\ snake_in = <<>>
    /\ snake_out = <<>>
    /\ snake_done = FALSE
    /\ item = [ident |-> "List"]
    /\ output = [macro |-> "none"]
    /\ call = [method |-> 0]
    /\ log = <<>>
    /\ result = [fn |-> "none"]
    /\ locals = <<>>
    /\ body = <<>>
    /\ body0 = <<>>
    /\ cursor = 0

TypeToString(ty) ==
    /\ result.fn = "none"
    /\ result' = Applied("type_to_string", ty, type_to_string(ty))
    /\ UNCHANGED <<log, index_vars, snake_vars, derive_vars, drop_vars>>

OptWhereClauseToString(wc) ==
    /\ result.fn = "none"
    /\ result' = Applied("opt_where_clause_to_string", wc,
                         opt_where_clause_to_string(wc))
    /\ UNCHANGED <<log, index_vars, snake_vars, derive_vars, drop_vars>>

GenerateVariantMatchPatterns(data, patvar_name) ==
    /\ result.fn = "none"
    /\ result' = Applied("generate_variant_match_patterns",
                         [data |-> data, patvar_name |-> patvar_name],
                         generate_variant_match_patterns("List", data, patvar_name))
    /\ UNCHANGED <<log, index_vars, snake_vars, derive_vars, drop_vars>>

DeriveOverField(macro, ty) ==
    /\ result.fn = "none"
    /\ result' = Applied(macro, ty, Outcome(macro, derive(macro, EnumWithField(ty))))
    /\ UNCHANGED <<log, index_vars, snake_vars, derive_vars, drop_vars>>

RenderNext ==
    \/ \E ty \in Types(MaxTypeDepth) : TypeToString(ty)
    \/ \E wc \in OptWhereClauses : OptWhereClauseToString(wc)
    \/ \E data \in EnumDatas : \E patvar_name \in PatvarNames :
           GenerateVariantMatchPatterns(data, patvar_name)
    \/ \E macro \in DeriveMacros : \E ty \in Types(MaxTypeDepth) :
           DeriveOverField(macro, ty)

SpecRender == RenderInit /\ [][RenderNext]_vars

(***************************************************************************)
(* transform of remove_drop_never on one body: transform_st is applied to  *)
(* the statements of the body one after the other, with the body's locals. *)
(***************************************************************************)
LocalTypes == {"Never", "Bool"}

\* The locals of a body with two variables
LocalsVectors ==
    {[i \in 1..2 |-> [index |-> i - 1, ty |-> tys[i]]] :
        tys \in [1..2 -> LocalTypes]}

Places == [var_id : {0, 1}, projection : {<<>>, <<"Deref">>}]

\* drop(p), nop, return and a read of p
RawStatements ==
    {[kind |-> "Drop", place |-> p] : p \in Places}
        \cup {Nop, [kind |-> "Return"]}
        \cup {[kind |-> "FakeRead", place |-> [var_id |-> 0, projection |-> <<>>]]}

Metas == {1, 2}

Statements == {Statement_new(meta, content) : meta \in Metas, content \in RawStatements}

Bodies == UNION {[1..n -> Statements] : n \in 1..MaxBody}

DropInit ==
    /\ usize_bits = U32Bits
    /\ generator = Generator_new
    /\ minted = <<>>
    /\ id = NoId
    /\ wire = NoWire
    /\ panicked = "none"
    /\ last = NoCall
    /\ snake_in = <<>>
    /\ snake_out = <<>>
    /\ snake_done = FALSE
    /\ item = [ident |-> "List"]
    /\ output = [macro |-> "none"]
    /\ call = [method |-> 0]
    /\ log = <<>>
    /\ result = [fn |-> "none"]
    /\ locals \in LocalsVectors
    /\ body0 \in Bodies
    /\ body = body0
    /\ cursor = 0

\* The closure |st| transform_st(locals, st) on the next statement
TransformSt ==
    /\ panicked = "none"
    /\ cursor < Len(body)
    /\ LET r == transform_st(locals, body[cursor + 1])
       IN  /\ body' = IF r.ok THEN [body EXCEPT ![cursor + 1] = r.val] ELSE body
           /\ panicked' = IF r.ok THEN "none" ELSE "transform_st"
    /\ cursor' = cursor + 1
    /\ UNCHANGED <<locals, body0, usize_bits, generator, minted, id, wire, last,
                   snake_vars, derive_vars, gen_vars>>

DropNext == TransformSt

SpecDrop == DropInit /\ [][DropNext]_vars

(***************************************************************************)
(* Claims about the emitted index module (checked under Spec).             *)
(***************************************************************************)

\* C1: starting from Generator::new(), the k-th call to fresh_id (k = 0, 1,
\* 2, ...) returns the handle with ordinal k: a call returns the counter
\* value held before the call and leaves the counter one higher, so the
\* handles returned are 0, 1, 2, ... in call order (the first two are ZERO
\* and ONE).
C1_FreshIdSequence ==
    /\ \A k \in 1..Len(minted) : minted[k].index = k - 1
    /\ (Len(minted) >= 2 => minted[1] = ZERO /\ minted[2] = ONE)
    /\ (last.op = "fresh_id" /\ ~last.panic =>
            /\ last.ret = last.before
            /\ generator.counter = last.before + 1
            /\ minted[Len(minted)].index = last.ret)

C1_ThreeCalls == last.op = "fresh_id" /\ ~last.panic /\ Len(minted) = 3

\* C2: Id::incr and Generator::fresh_id are overflow-checked: called with the
\* ordinal or counter at usize::MAX they panic; otherwise the value becomes
\* exactly the old value plus one; the value never becomes smaller.
C2_OverflowChecked ==
    /\ generator.counter \in 0..USIZE_MAX(usize_bits)
    /\ id # NoId => id.index \in 0..USIZE_MAX(usize_bits)
    /\ (last.op = "fresh_id" =>
            /\ generator.counter >= last.before
            /\ IF last.before = USIZE_MAX(usize_bits)
               THEN last.panic /\ panicked = "fresh_id"
               ELSE ~last.panic /\ panicked = "none"
                    /\ generator.counter = last.before + 1)
    /\ (last.op = "incr" =>
            /\ id.index >= last.before
            /\ IF last.before = USIZE_MAX(usize_bits)
               THEN last.panic /\ panicked = "incr"
               ELSE ~last.panic /\ panicked = "none"
                    /\ id.index = last.before + 1)

C2_CounterOverflowed ==
    /\ last.op = "fresh_id"
    /\ last.before = USIZE_MAX(usize_bits)
    /\ usize_bits = U32Bits + ExtraBits

\* C3: serializing a handle whose ordinal is above u32::MAX panics (the
\* assertion) and hands nothing to the serializer; serializing one at or
\* below u32::MAX calls serialize_u32 with exactly the ordinal.
C3_SerializeRange ==
    last.op = "serialize" =>
        IF last.before > U32_MAX
        THEN last.panic /\ panicked = "serialize" /\ last.ret = -1
        ELSE /\ ~last.panic
             /\ panicked = "none"
             /\ wire = [call |-> "serialize_u32", arg |-> last.before]

C3_SerializedAboveU32Max == last.op = "serialize" /\ last.before > U32_MAX

\* C18: after n successful fresh_id calls on a Generator made by
\* Generator::new() the counter is n and the n handles returned are pairwise
\* distinct; a fresh_id call that panics on overflow returns no handle and
\* leaves the counter as it was.
C18_CounterCountsHandles ==
    /\ generator.counter = Len(minted)
    /\ \A i, j \in 1..Len(minted) : i # j => minted[i] # minted[j]
    /\ (last.op = "fresh_id" /\ last.panic =>
            /\ generator.counter = last.before
            /\ last.ret = -1
            /\ Len(minted) = last.before)

C18_FaultAfterAllHandles ==
    /\ last.op = "fresh_id"
    /\ last.panic
    /\ Len(minted) = USIZE_MAX(usize_bits)
    /\ generator.counter = USIZE_MAX(usize_bits)

\* C19: the u32 bound is enforced only by serialize: Id::new never panics,
\* Id::incr and fresh_id panic only at usize::MAX, so handles above u32::MAX
\* exist exactly where usize is wider than u32, made by these operations
\* without a panic, and serialize is the operation that panics on them.
C19_BoundOnlyAtSerialize ==
    /\ (last.op = "Id::new" => ~last.panic /\ id.index = last.before)
    /\ (last.op \in {"incr", "fresh_id"} =>
            (last.panic <=> last.before = USIZE_MAX(usize_bits)))
    /\ (panicked \in {"incr", "fresh_id"} => last.before = USIZE_MAX(usize_bits))
    /\ (\A h \in Handles : h.index > U32_MAX => usize_bits > U32Bits)
    /\ (last.op = "serialize" => (last.panic <=> last.before > U32_MAX))

C19_FirstFaultAtSerialize ==
    /\ usize_bits > U32Bits
    /\ \E k \in 1..Len(minted) : minted[k].index > U32_MAX
    /\ id # NoId
    /\ id.index > U32_MAX
    /\ id.index < USIZE_MAX(usize_bits)
    /\ generator.counter < USIZE_MAX(usize_bits)
    /\ panicked = "serialize"
    /\ last.before > U32_MAX

(***************************************************************************)
(* Claims about to_snake_case (checked under SpecSnake).                   *)
(***************************************************************************)
AllUppercase(s) == \A i \in 1..Len(s) : is_uppercase(s[i])

\* What the rule of the scan emits for character i of s: an uppercase
\* character in lowercase, after "_" exactly when there is a previous
\* character and it is not uppercase; any other character unchanged.
SnakePiece(s, i) ==
    IF is_uppercase(s[i])
    THEN (IF i > 1 /\ ~is_uppercase(s[i - 1]) THEN <<"_">> ELSE <<>>)
         \o <<to_lowercase(s[i])>>
    ELSE <<s[i]>>

RECURSIVE SnakePieces(_, _)
SnakePieces(s, n) ==
    IF n = 0 THEN <<>> ELSE SnakePieces(s, n - 1) \o SnakePiece(s, n)

\* C7 as stated: to_snake_case("VARIANT") == "v_a_r_i_a_n_t".
C7_AsStated ==
    snake_done /\ snake_in = VARIANT =>
        snake_out = <<"v", "_", "a", "_", "r", "_", "i", "_", "a", "_", "n", "_", "t">>

\* C7 amended: to_snake_case("VARIANT") == "variant"; applied to an
\* identifier made only of uppercase letters, to_snake_case emits each
\* letter in lowercase and no underscore at all.
C7_AllUppercaseNoUnderscore ==
    snake_done /\ AllUppercase(snake_in) =>
        /\ Len(snake_out) = Len(snake_in)
        /\ \A i \in 1..Len(snake_in) : snake_out[i] = to_lowercase(snake_in[i])
        /\ (snake_in = VARIANT =>
                snake_out = <<"v", "a", "r", "i", "a", "n", "t">>)

C7_VariantConverted == snake_done /\ snake_in = VARIANT

\* C8: to_snake_case scans left to right with the flag "previous was
\* lowercase", initially false: an uppercase character is emitted in
\* lowercase, preceded by "_" iff the flag is set, and clears the flag; any
\* other character is emitted unchanged and sets the flag.  Hence
\* "ConstantValue" gives "constant_value", "I32" gives "i32", and no
\* underscore is inserted before a digit or at position 0.
C8_SnakeCaseRule ==
    snake_done =>
        /\ snake_out = SnakePieces(snake_in, Len(snake_in))
        /\ (snake_in = ConstantValue =>
                snake_out = <<"c", "o", "n", "s", "t", "a", "n", "t", "_",
                              "v", "a", "l", "u", "e">>)
        /\ (snake_in = I32 => snake_out = <<"i", "3", "2">>)
        /\ (snake_in # <<>> /\ snake_in[1] # "_" => snake_out[1] # "_")

C8_MixedCaseConverted ==
    /\ snake_done
    /\ snake_in = <<"a", "B", "3", "A">>
    /\ snake_out = <<"a", "_", "b", "3", "_", "a">>

(***************************************************************************)
(* Claims about the derive macros and the methods they emit (checked       *)
(* under SpecDerive).                                                      *)
(***************************************************************************)
Variants == item.data.variants

\* The number of fields a variant declares
FieldCount(variant) ==
    CASE variant.fields.kind = "Named" -> Len(variant.fields.named)
      [] variant.fields.kind = "Unnamed" -> Len(variant.fields.unnamed)
      [] variant.fields.kind = "Unit" -> 0

Derived(macro) == output.macro = macro /\ output.ok

Called == call.method # 0

\* The generic parameters and the where-clause of the declaration render
GenericsRender ==
    /\ generic_params_to_string(item.generics.params).ok
    /\ generic_params_without_constraints_to_string(item.generics.params).ok
    /\ opt_where_clause_to_string(item.generics.where_clause).ok

\* Every field type of the enum renders
FieldTypesRender ==
    \A v \in 1..Len(Variants) :
        \A t \in 1..FieldCount(Variants[v]) :
            type_to_string(field_types(Variants[v].fields)[t]).ok

WrongDeclarationKind ==
    {m \o " macro can not be called on " \o k :
        m \in {"VariantName", "VariantIndex", "EnumIsA", "EnumAsGetters"},
        k \in {"structs", "unions"}}

\* C4: for an enum with N variants, the emitted variant_index_arity has one
\* arm per variant in declaration order, arm i (from 0) returning (i, number
\* of fields of variant i); called on an instance of variant i it returns
\* that pair.
C4_VariantIndexArity ==
    Derived("VariantIndexArity") /\ Len(Variants) > 0 =>
        /\ Len(output.tokens.methods) = 1
        /\ Len(output.tokens.methods[1].arms) = Len(Variants)
        /\ \A i \in 1..Len(Variants) :
               /\ output.tokens.methods[1].arms[i].pat.variant = Variants[i].ident
               /\ output.tokens.methods[1].arms[i].body
                    = [kind |-> "pair", index |-> i - 1,
                       arity |-> FieldCount(Variants[i])]
        /\ (Called =>
               call.result = [kind |-> "pair", index |-> call.variant - 1,
                              arity |-> FieldCount(Variants[call.variant])])

C4_SecondVariantWithTwoFields ==
    /\ Derived("VariantIndexArity")
    /\ Called
    /\ call.variant = 2
    /\ FieldCount(Variants[2]) = 2
    /\ call.result = [kind |-> "pair", index |-> 1, arity |-> 2]

\* C5: for an enum with at least one variant and any instance of it, the
\* emitted is_<snake_case(variant)> predicate of the instance's own variant
\* returns true and every other emitted predicate returns false.
C5_ExactlyOneIsA ==
    Derived("EnumIsA") /\ Called =>
        /\ Len(output.tokens.methods) = Len(Variants)
        /\ \A m \in 1..Len(Variants) :
               /\ output.tokens.methods[m].name
                    = "is_" \o ident_to_string(to_snake_case(Variants[m].ident))
               /\ call_method(output.tokens.methods[m],
                              instance_of(item, call.variant))
                    = [kind |-> "bool", value |-> (m = call.variant)]
        /\ call.result = [kind |-> "bool", value |-> (call.method = call.variant)]

C5_OtherVariantIsFalse ==
    /\ Derived("EnumIsA")
    /\ Called
    /\ call.method # call.variant
    /\ call.result = [kind |-> "bool", value |-> FALSE]

\* C6: for an enum with more than one variant, as_<variant> called on an
\* instance of another variant panics with a message naming the ADT and the
\* requested variant; called on an instance of its own variant it returns
\* references to all the fields of the variant, in declaration order.
C6_AsGetters ==
    Derived("EnumAsGetters") /\ Called =>
        IF call.method = call.variant
        THEN call.result
               = [kind |-> "refs",
                  refs |-> [k \in 1..FieldCount(Variants[call.variant]) |-> {k}]]
        ELSE /\ Len(Variants) > 1
             /\ call.result
                  = [kind |-> "panic",
                     message |->
                         item.ident \o "::as_"
                         \o ident_to_string(to_snake_case(Variants[call.method].ident))
                         \o ": Not the proper variant"]

C6_OwnVariantWithTwoFields ==
    /\ Derived("EnumAsGetters")
    /\ Called
    /\ call.method = call.variant
    /\ Len(Variants) > 1
    /\ call.result = [kind |-> "refs", refs |-> <<{1}, {2}>>]

\* C9 as stated: each of the four macros, applied to any struct or union,
\* fails with WrongDeclarationKind and emits nothing, whatever the generic
\* parameters and the where-clause contain.
C9_AsStated ==
    output.macro # "none" /\ item.data.kind \in {"Struct", "Union"} =>
        /\ ~output.ok
        /\ output.tokens = EmptyTokens
        /\ output.panic \in WrongDeclarationKind

\* C9 amended: each of the four macros, applied to any struct or union,
\* fails and emits nothing; the failure is WrongDeclarationKind exactly when
\* the generic parameters and the where-clause render, and otherwise it is
\* the failure of that rendering, which comes first.
C9_NonEnumRejected ==
    output.macro # "none" /\ item.data.kind \in {"Struct", "Union"} =>
        /\ ~output.ok
        /\ output.tokens = EmptyTokens
        /\ (output.panic \in WrongDeclarationKind <=> GenericsRender)

C9_StructRejected ==
    /\ output.macro = "VariantName"
    /\ item.data.kind = "Struct"
    /\ output.panic = "VariantName macro can not be called on structs"

\* C10: applied to an enum without variants (whose generics render), each
\* of the four macros returns the empty text; applied to an enum with at
\* least one variant (whose generics and field types render), each returns
\* one impl block, holding one method (variant_name, variant_index_arity)
\* or one method per variant (is_a, as_getters).
C10_ImplShape ==
    /\ output.macro # "none"
    /\ item.data.kind = "Enum"
    /\ GenericsRender
    /\ FieldTypesRender
    => /\ output.ok
       /\ IF Len(Variants) = 0
          THEN output.tokens = EmptyTokens
          ELSE /\ output.tokens.kind = "impl"
               /\ Len(output.tokens.methods)
                    = (IF output.macro \in {"VariantName", "VariantIndexArity"}
                       THEN 1 ELSE Len(Variants))

C10_NoVariantsNoText ==
    /\ output.macro = "EnumAsGetters"
    /\ item.data.kind = "Enum"
    /\ Len(Variants) = 0
    /\ output.ok
    /\ output.tokens = EmptyTokens

\* The arms of emitted method number m
Arms(m) == output.tokens.methods[m].arms

\* C13: in every method emitted by EnumIsA and EnumAsGetters a trailing
\* wildcard arm is present exactly when the enum has more than one variant:
\* then the method has two arms, its variant (=> true, or => the bindings)
\* and `_` (=> false, or => unreachable!); with one variant the method has
\* the single arm of its variant.
C13_WildcardIffSeveral ==
    (Derived("EnumIsA") \/ Derived("EnumAsGetters")) =>
        \A m \in 1..Len(output.tokens.methods) :
            /\ Len(Arms(m)) = (IF Len(Variants) > 1 THEN 2 ELSE 1)
            /\ ~Arms(m)[1].pat.wildcard
            /\ Arms(m)[1].pat.variant = Variants[m].ident
            /\ Arms(m)[1].body.kind
                 = (IF output.macro = "EnumIsA" THEN "bool" ELSE "vars")
            /\ (output.macro = "EnumIsA" => Arms(m)[1].body.value = TRUE)
            /\ (Len(Variants) > 1 =>
                   /\ Arms(m)[2].pat.wildcard
                   /\ IF output.macro = "EnumIsA"
                      THEN Arms(m)[2].body = [kind |-> "bool", value |-> FALSE]
                      ELSE Arms(m)[2].body.kind = "unreachable")

C13_OneVariantOneArm ==
    /\ Derived("EnumIsA")
    /\ Len(Variants) = 1
    /\ Len(output.tokens.methods) = 1
    /\ Len(Arms(1)) = 1

(***************************************************************************)
(* Claims about generation requests (checked under SpecGen).               *)
(***************************************************************************)

\* C12: generate_index_type emits a module exactly when its input is one
\* token and that token is an identifier, and the module is named after the
\* identifier; on no token, on two or more tokens and on one token that is
\* not an identifier it panics (invalid parameters) and emits nothing.
C12_ExactlyOneIdentifier ==
    \A i \in 1..Len(log) :
        log[i].kind = "generate_index_type" =>
            IF Len(log[i].input) = 1 /\ log[i].input[1].kind = "Ident"
            THEN /\ log[i].outcome.ok
                 /\ log[i].outcome.tokens.kind = "mod"
                 /\ log[i].outcome.tokens.name = log[i].input[1].ident
            ELSE /\ ~log[i].outcome.ok
                 /\ log[i].outcome.tokens = EmptyTokens
                 /\ log[i].outcome.panic = InvalidParameters

C12_AcceptedAndRejected ==
    /\ Len(log) >= 2
    /\ log[1].kind = "generate_index_type"
    /\ log[1].outcome.ok
    /\ log[2].kind = "generate_index_type"
    /\ Len(log[2].input) = 2
    /\ ~log[2].outcome.ok

(***************************************************************************)
(* Claims about the rendering functions (checked under SpecRender).        *)
(***************************************************************************)
Applies(fn) == result.fn = fn

\* Every field type of the variants renders
TypesRender(variants) ==
    \A v \in 1..Len(variants) :
        \A t \in 1..FieldCount(variants[v]) :
            type_to_string(field_types(variants[v].fields)[t]).ok

\* basename0, basename1, ..., basename(n-1)
NumberedNames(basename, n) == [k \in 1..n |-> basename \o usize_to_string(k - 1)]

\* C14: generate_variant_match_patterns returns one MatchPattern per
\* variant, in declaration order; for every variant num_args is the number
\* of fields and arg_types has that length; with a basename the named_args
\* are basename0 .. basename(num_args - 1), numbered from 0 for every
\* variant; without one every field is bound to `_` and named_args is empty
\* while num_args still counts the fields; a unit variant has num_args 0 and
\* empty lists.
C14_MatchPatterns ==
    Applies("generate_variant_match_patterns") =>
        /\ result.outcome.ok <=> TypesRender(result.input.data.variants)
        /\ (result.outcome.ok =>
               /\ Len(result.outcome.val) = Len(result.input.data.variants)
               /\ \A i \in 1..Len(result.outcome.val) :
                      LET mp == result.outcome.val[i]
                          variant == result.input.data.variants[i]
                          basename == result.input.patvar_name
                      IN  /\ mp.variant_id = variant.ident
                          /\ mp.num_args = FieldCount(variant)
                          /\ Len(mp.arg_types) = mp.num_args
                          /\ Len(mp.pat.binds) = mp.num_args
                          /\ IF basename.some
                             THEN /\ mp.named_args
                                       = NumberedNames(basename.val, mp.num_args)
                                  /\ \A k \in 1..mp.num_args :
                                         mp.pat.binds[k].var = mp.named_args[k]
                             ELSE /\ mp.named_args = <<>>
                                  /\ \A k \in 1..mp.num_args :
                                         mp.pat.binds[k].var = "_"
                          /\ (variant.fields.kind = "Unit" =>
                                 /\ mp.num_args = 0
                                 /\ mp.named_args = <<>>
                                 /\ mp.arg_types = <<>>))

C14_NumberingRestarts ==
    /\ Applies("generate_variant_match_patterns")
    /\ result.outcome.ok
    /\ Len(result.outcome.val) = 2
    /\ result.outcome.val[1].named_args = <<"x0">>
    /\ result.outcome.val[2].named_args = <<"x0", "x1">>

\* The left-hand side of a type-bound or lifetime-bound predicate
PredicateLhs(wp) ==
    IF wp.kind = "Type" THEN type_to_string(wp.bounded_ty).val
    ELSE lifetime_to_string(wp.lifetime)

\* The bounds of a type-bound or lifetime-bound predicate, joined by " + "
PredicateBounds(wp) ==
    IF wp.kind = "Type" THEN type_param_bounds_to_string(wp.bounds).val
    ELSE lifetime_bounds_to_string(wp.bounds)

\* `lhs : bounds` for bound predicates and `lhs = rhs` for equalities
StatedPredicate(wp) ==
    IF wp.kind = "Eq"
    THEN type_to_string(wp.lhs_ty).val \o " = " \o type_to_string(wp.rhs_ty).val
    ELSE PredicateLhs(wp) \o " : " \o PredicateBounds(wp)

\* As StatedPredicate, but a type-bound predicate without bounds is its
\* left-hand side alone
AmendedPredicate(wp) ==
    IF wp.kind = "Type" /\ Len(wp.bounds) = 0
    THEN PredicateLhs(wp)
    ELSE StatedPredicate(wp)

\* The header line `where` and one line per predicate text
WhereLines(texts) ==
    "\nwhere\n" \o join([i \in 1..Len(texts) |-> "    " \o texts[i] \o ",\n"], "")

\* C15 as stated: render_where returns the empty text when the where-clause
\* is absent; otherwise the header `where` and one line per predicate in
\* declaration order, every type-bound and lifetime-bound predicate as
\* `lhs : bound1 + ...` and every equality as `lhs = rhs`.
C15_AsStated ==
    Applies("opt_where_clause_to_string") /\ result.outcome.ok =>
        result.outcome.val
          = (IF ~result.input.some THEN ""
             ELSE WhereLines([i \in 1..Len(result.input.val.predicates) |->
                                 StatedPredicate(result.input.val.predicates[i])]))

\* C15 amended: as stated, except that a type-bound predicate without any
\* bound is rendered as its left-hand side alone, without ` : `.
C15_RenderWhere ==
    Applies("opt_where_clause_to_string") /\ result.outcome.ok =>
        result.outcome.val
          = (IF ~result.input.some THEN ""
             ELSE WhereLines([i \in 1..Len(result.input.val.predicates) |->
                                 AmendedPredicate(result.input.val.predicates[i])]))

C15_BareAndBounded ==
    /\ Applies("opt_where_clause_to_string")
    /\ result.outcome.ok
    /\ result.outcome.val = "\nwhere\n    T,\n    T : 'a + Clone,\n"

\* The first text of a sequence that is not empty, or ""
FirstOf(texts) ==
    IF SelectSeq(texts, LAMBDA t : t # "") = <<>> THEN ""
    ELSE Head(SelectSeq(texts, LAMBDA t : t # ""))

RECURSIVE FirstUnsupported(_)
\* The tag of the first shape without a rendering that a type is or
\* contains, reading the type from left to right, or "" when it has none
FirstUnsupported(ty) ==
    CASE ty.tag \in UnsupportedTypeTags -> ty.tag
      [] ty.tag \in {"Array", "Reference", "Slice"} -> FirstUnsupported(ty.elem)
      [] ty.tag = "Tuple" ->
            FirstOf([i \in 1..Len(ty.elems) |-> FirstUnsupported(ty.elems[i])])
      [] ty.tag = "Path" ->
            FirstOf([s \in 1..Len(ty.path.segments) |->
                IF ty.path.segments[s].arguments.kind # "AngleBracketed" THEN ""
                ELSE FirstOf([a \in 1..Len(ty.path.segments[s].arguments.args) |->
                        IF ty.path.segments[s].arguments.args[a].kind # "Type" THEN ""
                        ELSE FirstUnsupported(
                                 ty.path.segments[s].arguments.args[a].ty)])])

UnexpectedType(tag) == "type_to_string: unexpected type: " \o tag

DropsNever(st_) ==
    /\ st_.content.kind = "Drop"
    /\ st_.content.place.projection = <<>>
    /\ locals[st_.content.place.var_id + 1].ty = "Never"

\* C17: transform_st replaces a statement by Nop, keeping its meta, exactly
\* when the statement is Drop(p), p has an empty projection and the local
\* p.var_id has type Never; every other statement is handed back unchanged;
\* the locals are never modified.
C17_DropOfNeverOnly ==
    [][/\ panicked' = "none"
       /\ cursor' = cursor + 1
       /\ Len(body') = Len(body)
       /\ body'[cursor'] = (IF DropsNever(body[cursor'])
                            THEN [meta |-> body[cursor'].meta,
                                  content |-> [kind |-> "Nop"]]
                            ELSE body[cursor'])
       /\ \A i \in 1..Len(body) : i # cursor' => body'[i] = body[i]
       /\ locals' = locals]_vars

C17_DropReplacedDropKept ==
    /\ cursor = 2
    /\ DropsNever(body0[1])
    /\ body0[1].meta = 2
    /\ body[1] = [meta |-> 2, content |-> [kind |-> "Nop"]]
    /\ body0[2].content.kind = "Drop"
    /\ body0[2].content.place.projection # <<>>
    /\ locals[body0[2].content.place.var_id + 1].ty = "Never"
    /\ body[2] = body0[2]

====
